---------------------------- MODULE Spec2Model ----------------------------
(*************************************************************************)
(* Model of the cross-language SM test runner (src/runner/runner.py).    *)
(*                                                                       *)
(*  - LanguageWrapper.execute: one subprocess invocation with a timeout, *)
(*    its exit-code policy, JSON parsing and exception handlers.         *)
(*  - TestRunner: detect_wrappers, the three matrix protocols            *)
(*    (test_sm3_hash, test_sm4_encrypt_decrypt, test_sm2_sign_verify),   *)
(*    print_summary and main's exit code.                                *)
(*                                                                       *)
(* Two specifications share the module:                                  *)
(*   SpecExec  one execute call after another, with a clock counting the *)
(*             seconds the child has been running;                       *)
(*   Spec      a whole run of main(), one execute call per step.         *)
(*************************************************************************)
EXTENDS Integers, Sequences, FiniteSets, TLC

(*************************************************************************)
(* Bounds of the model.                                                  *)
(*************************************************************************)
\* At most this many adapter artifacts exist under wrappers/.
MaxProviders == 2
\* At most this many deviations from the nominal run: an artifact that is
\* present but not executable, or an invocation whose outcome is not the
\* nominal one.
MaxFaults == 2

(*************************************************************************)
(* Program constants.                                                    *)
(*************************************************************************)
\* LanguageWrapper.EXECUTION_TIMEOUT, in seconds.
EXECUTION_TIMEOUT == 30

\* The provider kinds, in the order detect_wrappers inserts them.
Kinds == <<"python", "javascript", "php", "go">>

KindSet == {Kinds[k] : k \in 1..Len(Kinds)}

\* self.command[0] of the LanguageWrapper detect_wrappers builds per kind.
Command0(name) ==
    CASE name = "python"     -> "python3"
      [] name = "javascript" -> "node"
      [] name = "php"        -> "php"
      [] name = "go"         -> "wrappers/go/wrapper"

\* The kinds whose command is the artifact itself (it must be executable to
\* launch); the others are scripts handed to an interpreter.
DirectlyExecuted == {"go"}

\* Fixtures of the three protocols.
plaintext == "Test message for SM4"

\* Python's None (dict.get of an absent key).
None == "<None>"

(*************************************************************************)
(* JSON values.  A dict is [type |-> "dict", items |-> record]; a JSON   *)
(* array is [type |-> "list"].  A JSON array stored under a key is the   *)
(* leaf ListValue.                                                       *)
(*************************************************************************)
Dict(rec) == [type |-> "dict", items |-> rec]

JsonList == [type |-> "list"]

ListValue == "<list>"

DigestA == "66c7f0f462eeedd9"
DigestB == "1ab21d8355cfa17f"
CipherHex == "595298c7c6fd271f"
SigHex == "3045022100a1b2c3"
PubKeyHex == "04d5548c7825cbb5"

\* Texts an adapter may write to standard output.
OutEmpty == ""
OutGarbage == "Traceback (most recent call last):"
OutArray == "[]"
OutNoStatus == "{\"foo\": 1}"
OutBusinessError == "{\"status\": \"error\", \"message\": \"Invalid key\"}"
OutOddStatus == "{\"status\": \"failed\"}"
OutBareSuccess == "{\"status\": \"success\"}"
OutDigestA == "{\"status\": \"success\", \"output\": \"66c7f0f462eeedd9\"}"
OutDigestB == "{\"status\": \"success\", \"output\": \"1ab21d8355cfa17f\"}"
OutDigestList == "{\"status\": \"success\", \"output\": [\"66c7f0f462eeedd9\"]}"
OutCipher == "{\"status\": \"success\", \"output\": \"595298c7c6fd271f\"}"
OutPlain == "{\"status\": \"success\", \"output\": \"Test message for SM4\"}"
OutWrongPlain == "{\"status\": \"success\", \"output\": \"Test message\"}"
OutSigned == "{\"status\": \"success\", \"signature\": \"3045022100a1b2c3\", \"public_key\": \"04d5548c7825cbb5\"}"
OutSignedNoKey == "{\"status\": \"success\", \"signature\": \"3045022100a1b2c3\"}"
OutSignedEmptyKey == "{\"status\": \"success\", \"signature\": \"3045022100a1b2c3\", \"public_key\": \"\"}"
OutValid == "{\"status\": \"success\", \"valid\": true}"
OutInvalid == "{\"status\": \"success\", \"valid\": false}"

\* The Python adapter signs with a key pair it generated.
PrivKeyHex == "3945208f7b2144b1"
OutKeyPair == "{\"status\": \"success\", \"signature\": \"3045022100a1b2c3\", \"private_key\": \"3945208f7b2144b1\", \"public_key\": \"04d5548c7825cbb5\"}"

\* Texts a caller may hand over as --input: objects without and with a
\* private key, an array (OutArray), and one that is not JSON.
InObject == "{\"message\": \"abc\"}"
InObjectWithKey == "{\"message\": \"abc\", \"private_key\": \"3945208f7b2144b1\"}"
InGarbage == "{message: abc"

\* The choices of the adapter's algorithm argument, and what a caller may
\* put in the two positions.
Algorithms == {"sm2", "sm3", "sm4"}
AlgorithmArgs == Algorithms \cup {"SM3", "md5"}
OperationArgs == {"hash", "HASH", "encrypt", "decrypt", "sign", "verify", "keygen"}

\* str.lower on the arguments above.
Lower(s) ==
    CASE s = "HASH" -> "hash"
      [] s = "SM3"  -> "sm3"
      [] OTHER      -> s

\* The messages of the adapter's error responses.
ImportMessage == "sm-py-bc library not installed: No module named 'sm_bc'"
InvalidInputMessage ==
    "Invalid JSON input: Expecting property name enclosed in double quotes: line 1 column 2 (char 1)"
UnsupportedMessage(algorithm, operation) ==
    "Unsupported operation: " \o algorithm \o " " \o operation
AttributeErrorMessage == "'list' object has no attribute 'get'"
LibraryErrorMessage == "Invalid key"

AdapterMessages ==
    {ImportMessage, InvalidInputMessage, AttributeErrorMessage}
        \cup {UnsupportedMessage(a, o) : a \in Algorithms, o \in OperationArgs}

\* json.dumps of {"status": "error", "message": m}.
ErrorText(m) == "{\"status\": \"error\", \"message\": \"" \o m \o "\"}"

ErrorTexts == {ErrorText(m) : m \in AdapterMessages}

\* json.loads: the parsed value, or JSONDecodeError.
JsonLoads(s) ==
    CASE s = OutArray          -> [ok |-> TRUE, value |-> JsonList]
      [] s = OutNoStatus       -> [ok |-> TRUE, value |-> Dict([foo |-> "1"])]
      [] s = OutBusinessError  -> [ok |-> TRUE, value |-> Dict([status |-> "error", message |-> "Invalid key"])]
      [] s = OutOddStatus      -> [ok |-> TRUE, value |-> Dict([status |-> "failed"])]
      [] s = OutBareSuccess    -> [ok |-> TRUE, value |-> Dict([status |-> "success"])]
      [] s = OutDigestA        -> [ok |-> TRUE, value |-> Dict([status |-> "success", output |-> DigestA])]
      [] s = OutDigestB        -> [ok |-> TRUE, value |-> Dict([status |-> "success", output |-> DigestB])]
      [] s = OutDigestList     -> [ok |-> TRUE, value |-> Dict([status |-> "success", output |-> ListValue])]
      [] s = OutCipher         -> [ok |-> TRUE, value |-> Dict([status |-> "success", output |-> CipherHex])]
      [] s = OutPlain          -> [ok |-> TRUE, value |-> Dict([status |-> "success", output |-> plaintext])]
      [] s = OutWrongPlain     -> [ok |-> TRUE, value |-> Dict([status |-> "success", output |-> "Test message"])]
      [] s = OutSigned         -> [ok |-> TRUE, value |-> Dict([status |-> "success", signature |-> SigHex, public_key |-> PubKeyHex])]
      [] s = OutSignedNoKey    -> [ok |-> TRUE, value |-> Dict([status |-> "success", signature |-> SigHex])]
      [] s = OutSignedEmptyKey -> [ok |-> TRUE, value |-> Dict([status |-> "success", signature |-> SigHex, public_key |-> ""])]
      [] s = OutValid          -> [ok |-> TRUE, value |-> Dict([status |-> "success", valid |-> TRUE])]
      [] s = OutInvalid        -> [ok |-> TRUE, value |-> Dict([status |-> "success", valid |-> FALSE])]
      [] s = OutKeyPair        -> [ok |-> TRUE, value |-> Dict([status |-> "success", signature |-> SigHex, private_key |-> PrivKeyHex, public_key |-> PubKeyHex])]
      [] s = InObject          -> [ok |-> TRUE, value |-> Dict([message |-> "abc"])]
      [] s = InObjectWithKey   -> [ok |-> TRUE, value |-> Dict([message |-> "abc", private_key |-> PrivKeyHex])]
      [] s \in ErrorTexts      -> [ok |-> TRUE, value |-> Dict([status |-> "error", message |-> CHOOSE m \in AdapterMessages : ErrorText(m) = s])]
      [] OTHER                 -> [ok |-> FALSE]

\* What a child may leave on standard output: texts of the table, and two
\* that do not parse.
Stdouts ==
    { OutEmpty, OutGarbage, OutArray, OutNoStatus, OutBusinessError, OutOddStatus,
      OutBareSuccess, OutDigestA, OutDigestB, OutDigestList, OutCipher, OutPlain,
      OutWrongPlain, OutSigned, OutSignedNoKey, OutSignedEmptyKey, OutValid,
      OutInvalid }

Stderrs == {"", "boom"}

ReturnCodes == {0, 1}

(*************************************************************************)
(* Dict access as Python does it.                                        *)
(*************************************************************************)
IsDict(v) == v.type = "dict"

HasKey(v, k) == IsDict(v) /\ k \in DOMAIN v.items

\* The exception v[k] raises, or "none".
SubscriptFault(v, k) ==
    IF ~IsDict(v) THEN "TypeError"
    ELSE IF k \notin DOMAIN v.items THEN "KeyError"
    ELSE "none"

\* v.get(k): the value, or None.
Get(v, k) == IF k \in DOMAIN v.items THEN v.items[k] ELSE None

(*************************************************************************)
(* LanguageWrapper.execute.                                              *)
(*************************************************************************)
ErrorResult(msg) == Dict([status |-> "error", message |-> msg])

Returned(v) == [raised |-> FALSE, value |-> v]

Raised(exc) == [raised |-> TRUE, exc |-> exc]

\* What subprocess.run gave: a CompletedProcess, or an exception.
Completed(rc, out, err) ==
    [outcome |-> "completed", returncode |-> rc, stdout |-> out, stderr |-> err]

Threw(exc) == [outcome |-> exc, returncode |-> 0, stdout |-> "", stderr |-> ""]

\* The exceptions subprocess.run raises in the model, each with its classes.
Classes(exc) ==
    CASE exc = "TimeoutExpired"     -> {"TimeoutExpired", "SubprocessError", "Exception"}
      [] exc = "FileNotFoundError"  -> {"FileNotFoundError", "OSError", "Exception"}
      [] exc = "PermissionError"    -> {"PermissionError", "OSError", "Exception"}
      [] exc = "UnicodeDecodeError" -> {"UnicodeDecodeError", "ValueError", "Exception"}

LaunchFailures == {"FileNotFoundError", "PermissionError"}

\* str(e) of the exceptions the last handler sees.
StrOf(exc) ==
    CASE exc = "PermissionError"    -> "[Errno 13] Permission denied"
      [] exc = "UnicodeDecodeError" -> "'utf-8' codec can't decode byte 0xff"
      [] OTHER                      -> exc

\* A variant of the except clauses without the final catch-all.
ExceptClausesNoCatchAll == <<"TimeoutExpired", "FileNotFoundError">>

\* The except clauses of execute, in order.
ExceptClauses == <<"TimeoutExpired", "FileNotFoundError", "Exception">>

\* The body of each except clause.
HandlerResult(clause, name, exc) ==
    CASE clause = "TimeoutExpired"    -> ErrorResult("Process timed out")
      [] clause = "FileNotFoundError" -> ErrorResult("Command not found: " \o Command0(name))
      [] clause = "Exception"         -> ErrorResult(StrOf(exc))

\* The first clause that matches, or the exception propagates.
Handle(name, exc) ==
    LET hits == {k \in 1..Len(ExceptClauses) : ExceptClauses[k] \in Classes(exc)}
    IN  IF hits = {} THEN Raised(exc)
        ELSE LET first == CHOOSE k \in hits : \A m \in hits : k <= m
             IN  Returned(HandlerResult(ExceptClauses[first], name, exc))

ExitMessage(rc, err) == "Process exited with code " \o ToString(rc) \o ": " \o err

InvalidJsonMessage(out, err) == "Invalid JSON output: " \o out \o "\nStderr: " \o err

\* The part of execute after subprocess.run returned.
ProcessCompleted(rc, out, err) ==
    IF rc # 0 /\ out = ""
    THEN ErrorResult(ExitMessage(rc, err))
    ELSE IF JsonLoads(out).ok
         THEN JsonLoads(out).value
         ELSE ErrorResult(InvalidJsonMessage(out, err))

\* execute, given what subprocess.run did.
Execute(name, proc) ==
    IF proc.outcome = "completed"
    THEN Returned(ProcessCompleted(proc.returncode, proc.stdout, proc.stderr))
    ELSE Handle(name, proc.outcome)

\* A variant in which the expired child is left alone (as Popen.wait does).
ChildLeftRunning == "running"

\* subprocess.run(timeout=...) on expiry: the child is killed and waited for
\* before TimeoutExpired is raised.
ChildAfterTimeout == "killed"


(*************************************************************************)
(* State.                                                                *)
(*************************************************************************)
VARIABLES
    \* The file system: the kinds whose artifact exists, and those among
    \* them whose artifact is executable.
    present, executable,
    \* TestRunner: self.wrappers (its keys, in insertion order) and
    \* self.test_results.
    wrappers, test_results,
    \* Locals of the protocol in progress.
    hashes, i, j, ciphertext, signature, public_key,
    \* Where main() stands, the exception that ended it ("none" if none),
    \* the process exit code (-1 while running) and test_results.json.
    pc, fault, exitCode, results_file,
    \* History: every execute call of the run, and the deviations used.
    calls, faults,
    \* One execute call (SpecExec): its position, the wrapper's name, the
    \* child process, the seconds it has run, what subprocess.run gave,
    \* and what execute returned or raised.
    gpc, gname, child, clock, gproc, gout,
    \* One invocation of the Python adapter (SpecAdapter): whether the
    \* crypto library imports, the command line, the position in
    \* wrapper.py, the parsed input, the handler routed to, what was
    \* printed to each stream, and the exit status (-1 while running).
    lib, args, apc, input_data, handler, out_stream, err_stream, exit_status

runVars ==
    <<present, executable, wrappers, test_results, hashes, i, j, ciphertext,
      signature, public_key, pc, fault, exitCode, results_file, calls, faults>>

execVars == <<gpc, gname, child, clock, gproc, gout>>

adapterVars ==
    <<lib, args, apc, input_data, handler, out_stream, err_stream, exit_status>>

vars == <<runVars, execVars, adapterVars>>

NoProc == Threw("none")

NoOut == Returned(Dict([status |-> "none"]))

ExecIdle ==
    /\ gpc = "idle"
    /\ gname = "python"
    /\ child = "none"
    /\ clock = 0
    /\ gproc = NoProc
    /\ gout = NoOut

NoInput == [type |-> "unset"]

NoHandler == <<"", "">>

\* The adapter is not invoked: its command line is the driver's hash call.
AdapterIdle ==
    /\ lib = "installed"
    /\ args = [help |-> FALSE, algorithm |-> "sm3", operation |-> "hash", input |-> InObject]
    /\ apc = "import"
    /\ input_data = NoInput
    /\ handler = NoHandler
    /\ out_stream = <<>>
    /\ err_stream = <<>>
    /\ exit_status = -1

RunIdle ==
    /\ present = {}
    /\ executable = {}
    /\ wrappers = <<>>
    /\ test_results = <<>>
    /\ hashes = <<>>
    /\ i = 1
    /\ j = 1
    /\ ciphertext = ""
    /\ signature = ""
    /\ public_key = ""
    /\ pc = "main"
    /\ fault = "none"
    /\ exitCode = -1
    /\ results_file = [written |-> FALSE, content |-> <<>>]
    /\ calls = <<>>
    /\ faults = 0

(*************************************************************************)
(* SpecExec: LanguageWrapper.execute, step by step.                      *)
(*************************************************************************)
\* execute is entered and subprocess.run launches the child, or fails to.
Launch ==
    /\ gpc = "idle"
    /\ \E name \in KindSet :
        /\ gname' = name
        /\ \/ /\ gpc' = "running"
              /\ child' = "running"
              /\ clock' = 0
              /\ UNCHANGED <<gproc, gout>>
           \/ \E exc \in LaunchFailures :
              /\ gproc' = Threw(exc)
              /\ gout' = Execute(name, Threw(exc))
              /\ gpc' = "returned"
              /\ clock' = 0
              /\ UNCHANGED child
    /\ UNCHANGED <<runVars, adapterVars>>

\* A second passes while subprocess.run waits for the child.
Tick ==
    /\ gpc = "running"
    /\ child = "running"
    /\ clock < EXECUTION_TIMEOUT
    /\ clock' = clock + 1
    /\ UNCHANGED <<gpc, gname, child, gproc, gout, runVars, adapterVars>>

\* The child exits before the timeout; its output is decoded and handed
\* back, or cannot be decoded as text.
ChildExit ==
    /\ gpc = "running"
    /\ child = "running"
    /\ clock < EXECUTION_TIMEOUT
    /\ child' = "exited"
    /\ gpc' = "returned"
    /\ \/ \E rc \in ReturnCodes, out \in Stdouts, err \in Stderrs :
            /\ gproc' = Completed(rc, out, err)
            /\ gout' = Execute(gname, Completed(rc, out, err))
       \/ /\ gproc' = Threw("UnicodeDecodeError")
          /\ gout' = Execute(gname, Threw("UnicodeDecodeError"))
    /\ UNCHANGED <<gname, clock, runVars, adapterVars>>

\* The timeout expires: subprocess.run kills the child, waits for it and
\* raises TimeoutExpired.
Expire ==
    /\ gpc = "running"
    /\ child = "running"
    /\ clock = EXECUTION_TIMEOUT
    /\ child' = ChildAfterTimeout
    /\ gproc' = Threw("TimeoutExpired")
    /\ gout' = Execute(gname, Threw("TimeoutExpired"))
    /\ gpc' = "returned"
    /\ UNCHANGED <<gname, clock, runVars, adapterVars>>

\* The caller takes the result; the wrapper is ready for the next call.
NextCall ==
    /\ gpc = "returned"
    /\ ~gout.raised
    /\ gpc' = "idle"
    /\ gname' = "python"
    /\ child' = "none"
    /\ clock' = 0
    /\ gproc' = NoProc
    /\ gout' = NoOut
    /\ UNCHANGED <<runVars, adapterVars>>

InitExec == ExecIdle /\ RunIdle /\ AdapterIdle

NextExec == Launch \/ Tick \/ ChildExit \/ Expire \/ NextCall

SpecExec == InitExec /\ [][NextExec]_vars

\* An uncaught exception ends main(): the interpreter exits with code 1.
UncaughtExitCode == 1

(*************************************************************************)
(* wrappers/py/wrapper.py: one invocation of the Python adapter.         *)
(*************************************************************************)
\* What argparse and an uncaught exception print.
UsageText == "usage: wrapper.py [-h] --input INPUT {sm2,sm3,sm4} operation"
HelpText == "usage: wrapper.py [-h] --input INPUT {sm2,sm3,sm4} operation\n\nPython SM cryptography CLI wrapper"
TracebackText == OutGarbage

ErrorResponse(msg) == Dict([status |-> "error", message |-> msg])

\* json.dumps of the mappings the adapter prints.
JsonDumps(v) ==
    CASE DOMAIN v.items = {"status", "message"} -> ErrorText(v.items.message)
      [] DOMAIN v.items = {"status", "valid"} ->
            IF v.items.valid THEN OutValid ELSE OutInvalid
      [] DOMAIN v.items = {"status", "signature"} -> OutSignedNoKey
      [] DOMAIN v.items = {"status", "signature", "private_key", "public_key"} -> OutKeyPair
      [] DOMAIN v.items = {"status", "output"} ->
            CASE v.items.output = DigestA   -> OutDigestA
              [] v.items.output = CipherHex -> OutCipher
              [] v.items.output = plaintext -> OutPlain

\* The keys of the handlers table.
handlers ==
    { <<"sm3", "hash">>, <<"sm4", "encrypt">>, <<"sm4", "decrypt">>,
      <<"sm2", "sign">>, <<"sm2", "verify">>, <<"sm2", "encrypt">>,
      <<"sm2", "decrypt">> }

\* What a handler returns when the library raises nothing.
HandlerSuccess(key, data) ==
    CASE key = <<"sm3", "hash">> -> {Dict([status |-> "success", output |-> DigestA])}
      [] key[2] = "encrypt" -> {Dict([status |-> "success", output |-> CipherHex])}
      [] key[2] = "decrypt" -> {Dict([status |-> "success", output |-> plaintext])}
      [] key = <<"sm2", "sign">> ->
            IF Get(data, "private_key") \notin {None, ""}
            THEN {Dict([status |-> "success", signature |-> SigHex])}
            ELSE {Dict([status |-> "success", signature |-> SigHex,
                        private_key |-> PrivKeyHex, public_key |-> PubKeyHex])}
      [] key = <<"sm2", "verify">> ->
            {Dict([status |-> "success", valid |-> b]) : b \in BOOLEAN}

\* The results a handler may return.  Its whole body is inside try /
\* except Exception: data.get raises on input that is not an object, and
\* the library may raise on any input.
HandlerResults(key, data) ==
    IF ~IsDict(data)
    THEN {ErrorResponse(AttributeErrorMessage)}
    ELSE HandlerSuccess(key, data) \cup {ErrorResponse(LibraryErrorMessage)}

\* A variant that always reports success to the caller.
SysExitAlwaysZero(result) == 0

\* sys.exit(0 if result["status"] == "success" else 1)
SysExit(result) == IF result.items.status = "success" THEN 0 ELSE 1

\* The process ends with this status; nothing else changes.
Exits(code) ==
    /\ apc' = "exited"
    /\ exit_status' = code

\* The import guard at the top of the module.
ImportLib ==
    /\ apc = "import"
    /\ \/ /\ lib = "installed"
          /\ apc' = "main"
          /\ UNCHANGED <<exit_status, err_stream>>
       \/ /\ lib = "missing"
          /\ err_stream' = Append(err_stream, JsonDumps(ErrorResponse(ImportMessage)))
          /\ Exits(1)
       \/ /\ lib = "broken"
          /\ err_stream' = Append(err_stream, TracebackText)
          /\ Exits(UncaughtExitCode)
    /\ UNCHANGED <<lib, args, input_data, handler, out_stream, runVars, execVars>>

\* parser.parse_args(): help, a rejected command line, or the namespace.
ParseArgs ==
    /\ apc = "main"
    /\ \/ /\ args.help
          /\ out_stream' = Append(out_stream, HelpText)
          /\ Exits(0)
          /\ UNCHANGED err_stream
       \/ /\ ~args.help
          /\ (args.algorithm \notin Algorithms \/ args.input = None)
          /\ err_stream' = Append(err_stream, UsageText)
          /\ Exits(2)
          /\ UNCHANGED out_stream
       \/ /\ ~args.help
          /\ args.algorithm \in Algorithms
          /\ args.input # None
          /\ apc' = "parsed"
          /\ UNCHANGED <<exit_status, out_stream, err_stream>>
    /\ UNCHANGED <<lib, args, input_data, handler, runVars, execVars>>

\* json.loads(args.input), with its except clause.
LoadInput ==
    /\ apc = "parsed"
    /\ IF JsonLoads(args.input).ok
       THEN /\ input_data' = JsonLoads(args.input).value
            /\ apc' = "loaded"
            /\ UNCHANGED <<exit_status, out_stream>>
       ELSE /\ out_stream' = Append(out_stream, JsonDumps(ErrorResponse(InvalidInputMessage)))
            /\ Exits(1)
            /\ UNCHANGED input_data
    /\ UNCHANGED <<lib, args, handler, err_stream, runVars, execVars>>

\* The lookup in the handlers table.
Route ==
    /\ apc = "loaded"
    /\ LET key == <<Lower(args.algorithm), Lower(args.operation)>> IN
       IF key \in handlers
       THEN /\ handler' = key
            /\ apc' = "routed"
            /\ UNCHANGED <<exit_status, out_stream>>
       ELSE /\ out_stream' = Append(out_stream,
                   JsonDumps(ErrorResponse(UnsupportedMessage(args.algorithm, args.operation))))
            /\ Exits(1)
            /\ UNCHANGED handler
    /\ UNCHANGED <<lib, args, input_data, err_stream, runVars, execVars>>

\* The handler runs, its result is printed and decides the exit status.
RunHandler ==
    /\ apc = "routed"
    /\ \E result \in HandlerResults(handler, input_data) :
          /\ out_stream' = Append(out_stream, JsonDumps(result))
          /\ Exits(SysExit(result))
    /\ UNCHANGED <<lib, args, input_data, handler, err_stream, runVars, execVars>>

InitAdapter ==
    /\ ExecIdle
    /\ RunIdle
    /\ lib \in {"installed", "missing", "broken"}
    /\ args \in [help : BOOLEAN, algorithm : AlgorithmArgs, operation : OperationArgs,
                 input : {None, InGarbage, InObject, InObjectWithKey, OutArray}]
    /\ apc = "import"
    /\ input_data = NoInput
    /\ handler = NoHandler
    /\ out_stream = <<>>
    /\ err_stream = <<>>
    /\ exit_status = -1

NextAdapter == ImportLib \/ ParseArgs \/ LoadInput \/ Route \/ RunHandler

SpecAdapter == InitAdapter /\ [][NextAdapter]_vars


(*************************************************************************)
(* Spec: a run of main().  What the adapters do is the input: each       *)
(* execute call takes the nominal outcome of its operation or, while the *)
(* run has deviations left, one of the others.                           *)
(*************************************************************************)
Range(seq) == {seq[k] : k \in 1..Len(seq)}

\* The adapter answers as section 6 of the protocol table says.
NominalProc(op) ==
    CASE op = "hash"    -> Completed(0, OutDigestA, "")
      [] op = "encrypt" -> Completed(0, OutCipher, "")
      [] op = "decrypt" -> Completed(0, OutPlain, "")
      [] op = "sign"    -> Completed(0, OutSigned, "")
      [] op = "verify"  -> Completed(0, OutValid, "")

\* The other outcomes an invocation may have.
FaultProcs(op) ==
    { Completed(1, OutBusinessError, ""), Completed(0, OutArray, ""),
      Completed(0, OutNoStatus, ""), Completed(0, OutBareSuccess, "") }
    \cup
    CASE op = "hash"    -> {Completed(0, OutDigestB, ""), Completed(0, OutDigestList, ""),
                            Completed(1, OutOddStatus, "")}
      [] op = "encrypt" -> {Threw("TimeoutExpired")}
      [] op = "decrypt" -> {Completed(0, OutWrongPlain, "")}
      [] op = "sign"    -> {Completed(0, OutSignedNoKey, ""), Completed(0, OutSignedEmptyKey, "")}
      [] op = "verify"  -> {Completed(0, OutInvalid, "")}

\* What wrapper.execute may return here: [out, cost].  An artifact that is
\* its own command and is not executable fails to launch every time.
Invoke(name, op) ==
    IF name \in DirectlyExecuted /\ name \notin executable
    THEN {[out |-> Execute(name, Threw("PermissionError")), cost |-> 0]}
    ELSE {[out |-> Execute(name, NominalProc(op)), cost |-> 0]}
         \cup
         {[out |-> Execute(name, p), cost |-> 1] : p \in {q \in FaultProcs(op) : faults < MaxFaults}}

\* How a result reads to the driver, for the history.
StatusOf(out) ==
    IF out.raised THEN "raised"
    ELSE IF HasKey(out.value, "status") THEN out.value.items.status
    ELSE "malformed"

\* One entry of the history: the call and what came back.
Call(family, op, name, peer, out) ==
    [family |-> family, op |-> op, by |-> name, peer |-> peer,
     status |-> StatusOf(out),
     output |-> IF ~out.raised /\ HasKey(out.value, "output")
                THEN out.value.items.output ELSE None,
     public_key |-> IF ~out.raised /\ HasKey(out.value, "public_key")
                    THEN out.value.items.public_key ELSE None,
     valid |-> ~out.raised /\ HasKey(out.value, "valid") /\ out.value.items.valid]

\* A variant of detect_wrappers that registers the Go binary unchecked.
DetectWrappersGoUnchecked(exists) == SelectSeq(Kinds, LAMBDA k : k \in exists \/ k = "go")

\* detect_wrappers: one entry per kind whose artifact exists.
DetectWrappers(exists) == SelectSeq(Kinds, LAMBDA k : k \in exists)

(*************************************************************************)
(* test_sm3_hash.                                                        *)
(*************************************************************************)
\* A variant whose failure branch assigns the list instead of appending.
HashStepAssigns(lang, out, hs, results) ==
    IF out.raised
    THEN [fault |-> out.exc, hashes |-> hs, results |-> results]
    ELSE LET result == out.value IN
         IF SubscriptFault(result, "status") # "none"
         THEN [fault |-> SubscriptFault(result, "status"), hashes |-> hs, results |-> results]
         ELSE IF result.items.status = "success"
         THEN IF SubscriptFault(result, "output") # "none"
              THEN [fault |-> SubscriptFault(result, "output"), hashes |-> hs, results |-> results]
              ELSE [fault |-> "none",
                    hashes |-> Append(hs, <<lang, result.items.output>>),
                    results |-> results]
         ELSE [fault |-> "none", hashes |-> hs,
               results |-> <<[test |-> "sm3_hash", language |-> lang, status |-> "failed",
                              error |-> Get(result, "message")]>>]

\* The loop body after execute: [fault, hashes, results].
HashStep(lang, out, hs, results) ==
    IF out.raised
    THEN [fault |-> out.exc, hashes |-> hs, results |-> results]
    ELSE LET result == out.value IN
         IF SubscriptFault(result, "status") # "none"
         THEN [fault |-> SubscriptFault(result, "status"), hashes |-> hs, results |-> results]
         ELSE IF result.items.status = "success"
         THEN IF SubscriptFault(result, "output") # "none"
              THEN [fault |-> SubscriptFault(result, "output"), hashes |-> hs, results |-> results]
              ELSE [fault |-> "none",
                    hashes |-> Append(hs, <<lang, result.items.output>>),
                    results |-> results]
         ELSE [fault |-> "none", hashes |-> hs,
               results |-> Append(results,
                   [test |-> "sm3_hash", language |-> lang, status |-> "failed",
                    error |-> Get(result, "message")])]

HashValues(hs) == {hs[k][2] : k \in 1..Len(hs)}

HashKeys(hs) == [k \in 1..Len(hs) |-> hs[k][1]]

\* A variant of the consistency check that passes on at most one distinct
\* digest, so also on none.
HashCheckAtMostOne(hs, results) ==
    IF ListValue \in HashValues(hs)
    THEN [fault |-> "TypeError", results |-> results]
    ELSE IF Cardinality(HashValues(hs)) <= 1
    THEN [fault |-> "none",
          results |-> Append(results,
              [test |-> "sm3_hash", status |-> "passed", languages |-> HashKeys(hs)])]
    ELSE [fault |-> "none",
          results |-> Append(results,
              [test |-> "sm3_hash", status |-> "failed",
               error |-> "Hash values do not match", hashes |-> hs])]

\* The consistency check: [fault, results].  set() of a list value raises.
HashCheck(hs, results) ==
    IF ListValue \in HashValues(hs)
    THEN [fault |-> "TypeError", results |-> results]
    ELSE IF Cardinality(HashValues(hs)) = 1
    THEN [fault |-> "none",
          results |-> Append(results,
              [test |-> "sm3_hash", status |-> "passed", languages |-> HashKeys(hs)])]
    ELSE [fault |-> "none",
          results |-> Append(results,
              [test |-> "sm3_hash", status |-> "failed",
               error |-> "Hash values do not match", hashes |-> hs])]

(*************************************************************************)
(* test_sm4_encrypt_decrypt.                                             *)
(*************************************************************************)
\* A variant that goes on to the decrypt loop after a failed encrypt.
EncryptStepNoSkip(out) ==
    IF out.raised
    THEN [fault |-> out.exc, skip |-> TRUE, ciphertext |-> ""]
    ELSE LET encrypt_result == out.value IN
         IF SubscriptFault(encrypt_result, "status") # "none"
         THEN [fault |-> SubscriptFault(encrypt_result, "status"), skip |-> TRUE, ciphertext |-> ""]
         ELSE IF encrypt_result.items.status # "success"
         THEN [fault |-> "none", skip |-> FALSE, ciphertext |-> ""]
         ELSE IF SubscriptFault(encrypt_result, "output") # "none"
         THEN [fault |-> SubscriptFault(encrypt_result, "output"), skip |-> TRUE, ciphertext |-> ""]
         ELSE [fault |-> "none", skip |-> FALSE, ciphertext |-> encrypt_result.items.output]

\* After the encrypt call: [fault, skip, ciphertext].
EncryptStep(out) ==
    IF out.raised
    THEN [fault |-> out.exc, skip |-> TRUE, ciphertext |-> ""]
    ELSE LET encrypt_result == out.value IN
         IF SubscriptFault(encrypt_result, "status") # "none"
         THEN [fault |-> SubscriptFault(encrypt_result, "status"), skip |-> TRUE, ciphertext |-> ""]
         ELSE IF encrypt_result.items.status # "success"
         THEN [fault |-> "none", skip |-> TRUE, ciphertext |-> ""]
         ELSE IF SubscriptFault(encrypt_result, "output") # "none"
         THEN [fault |-> SubscriptFault(encrypt_result, "output"), skip |-> TRUE, ciphertext |-> ""]
         ELSE [fault |-> "none", skip |-> FALSE, ciphertext |-> encrypt_result.items.output]

MismatchMessage(expected, got) ==
    "Plaintext mismatch: expected '" \o expected \o "', got '" \o got \o "'"

\* After the decrypt call: [fault, results].
DecryptStep(encryptor_name, decryptor_name, out, results) ==
    IF out.raised
    THEN [fault |-> out.exc, results |-> results]
    ELSE LET decrypt_result == out.value IN
         IF SubscriptFault(decrypt_result, "status") # "none"
         THEN [fault |-> SubscriptFault(decrypt_result, "status"), results |-> results]
         ELSE IF decrypt_result.items.status # "success"
         THEN [fault |-> "none",
               results |-> Append(results,
                   [test |-> "sm4_encrypt_decrypt", encryptor |-> encryptor_name,
                    decryptor |-> decryptor_name, status |-> "failed",
                    error |-> Get(decrypt_result, "message")])]
         ELSE IF SubscriptFault(decrypt_result, "output") # "none"
         THEN [fault |-> SubscriptFault(decrypt_result, "output"), results |-> results]
         ELSE IF decrypt_result.items.output = plaintext
         THEN [fault |-> "none",
               results |-> Append(results,
                   [test |-> "sm4_encrypt_decrypt", encryptor |-> encryptor_name,
                    decryptor |-> decryptor_name, status |-> "passed"])]
         ELSE [fault |-> "none",
               results |-> Append(results,
                   [test |-> "sm4_encrypt_decrypt", encryptor |-> encryptor_name,
                    decryptor |-> decryptor_name, status |-> "failed",
                    error |-> MismatchMessage(plaintext, decrypt_result.items.output)])]

(*************************************************************************)
(* test_sm2_sign_verify.                                                 *)
(*************************************************************************)
\* After the sign call: [fault, skip, signature, public_key].
SignStep(out) ==
    LET stop(f) == [fault |-> f, skip |-> TRUE, signature |-> "", public_key |-> ""] IN
    IF out.raised
    THEN stop(out.exc)
    ELSE LET sign_result == out.value IN
         IF SubscriptFault(sign_result, "status") # "none"
         THEN stop(SubscriptFault(sign_result, "status"))
         ELSE IF sign_result.items.status # "success"
         THEN stop("none")
         ELSE IF SubscriptFault(sign_result, "signature") # "none"
         THEN stop(SubscriptFault(sign_result, "signature"))
         ELSE IF Get(sign_result, "public_key") \in {None, ""}
         THEN [fault |-> "none", skip |-> TRUE,
               signature |-> sign_result.items.signature, public_key |-> ""]
         ELSE [fault |-> "none", skip |-> FALSE,
               signature |-> sign_result.items.signature,
               public_key |-> sign_result.items.public_key]

\* A variant whose error branch lacks the continue and falls through to
\* the validity check.
VerifyStepNoContinue(signer_name, verifier_name, out, results) ==
    IF out.raised
    THEN [fault |-> out.exc, results |-> results]
    ELSE LET verify_result == out.value
             outcome(st) == [test |-> "sm2_sign_verify", signer |-> signer_name,
                             verifier |-> verifier_name, status |-> st]
             invalid == [test |-> "sm2_sign_verify", signer |-> signer_name,
                         verifier |-> verifier_name, status |-> "failed",
                         error |-> "Signature verification failed"]
         IN
         IF SubscriptFault(verify_result, "status") # "none"
         THEN [fault |-> SubscriptFault(verify_result, "status"), results |-> results]
         ELSE IF verify_result.items.status # "success"
         THEN [fault |-> "none",
               results |-> Append(Append(results,
                   [test |-> "sm2_sign_verify", signer |-> signer_name,
                    verifier |-> verifier_name, status |-> "failed",
                    error |-> Get(verify_result, "message")]), invalid)]
         ELSE IF "valid" \in DOMAIN verify_result.items /\ verify_result.items.valid
         THEN [fault |-> "none", results |-> Append(results, outcome("passed"))]
         ELSE [fault |-> "none", results |-> Append(results, invalid)]

\* After the verify call: [fault, results].
VerifyStep(signer_name, verifier_name, out, results) ==
    IF out.raised
    THEN [fault |-> out.exc, results |-> results]
    ELSE LET verify_result == out.value IN
         IF SubscriptFault(verify_result, "status") # "none"
         THEN [fault |-> SubscriptFault(verify_result, "status"), results |-> results]
         ELSE IF verify_result.items.status # "success"
         THEN [fault |-> "none",
               results |-> Append(results,
                   [test |-> "sm2_sign_verify", signer |-> signer_name,
                    verifier |-> verifier_name, status |-> "failed",
                    error |-> Get(verify_result, "message")])]
         ELSE IF "valid" \in DOMAIN verify_result.items /\ verify_result.items.valid
         THEN [fault |-> "none",
               results |-> Append(results,
                   [test |-> "sm2_sign_verify", signer |-> signer_name,
                    verifier |-> verifier_name, status |-> "passed"])]
         ELSE [fault |-> "none",
               results |-> Append(results,
                   [test |-> "sm2_sign_verify", signer |-> signer_name,
                    verifier |-> verifier_name, status |-> "failed",
                    error |-> "Signature verification failed"])]

(*************************************************************************)
(* print_summary.                                                        *)
(*************************************************************************)
CountStatus(results, st) ==
    Cardinality({k \in 1..Len(results) : results[k].status = st})

\* total = passed + failed.
Total(results) == CountStatus(results, "passed") + CountStatus(results, "failed")

\* A variant that returns whether anything passed.
AllPassedIfAnyPassed(results) == CountStatus(results, "passed") > 0

\* The value print_summary returns.
AllPassed(results) == CountStatus(results, "failed") = 0

\* sys.exit(0 if success else 1).
ExitCodeOf(success) == IF success THEN 0 ELSE 1


(*************************************************************************)
(* The steps of a run.                                                   *)
(*************************************************************************)
\* A variant of the loops in which a failed call is made again.
RetryAfterFailure(k) == k

\* continue after a failed call: the loop goes on to the next provider.
AfterFailure(k) == k + 1

\* An exception nobody catches unwinds main().
Crash(exc) ==
    /\ pc' = "exited"
    /\ fault' = exc
    /\ exitCode' = UncaughtExitCode

\* main() and the head of run_all_tests: detect_wrappers, and the early
\* return when it finds nothing.
detect_wrappers ==
    /\ pc = "main"
    /\ wrappers' = DetectWrappers(present)
    /\ IF Len(DetectWrappers(present)) > 0
       THEN pc' = "sm3_hash" /\ exitCode' = exitCode
       ELSE pc' = "exited" /\ exitCode' = ExitCodeOf(FALSE)
    /\ i' = 1
    /\ UNCHANGED <<present, executable, test_results, hashes, j, ciphertext,
                   signature, public_key, fault, results_file, calls, faults,
                   execVars, adapterVars>>

\* test_sm3_hash, one provider of the loop.
sm3_hash_call ==
    /\ pc = "sm3_hash"
    /\ i <= Len(wrappers)
    /\ \E c \in Invoke(wrappers[i], "hash") :
        LET step == HashStep(wrappers[i], c.out, hashes, test_results) IN
        /\ faults' = faults + c.cost
        /\ calls' = Append(calls, Call("sm3_hash", "hash", wrappers[i], "", c.out))
        /\ IF step.fault # "none"
           THEN Crash(step.fault) /\ UNCHANGED <<hashes, test_results, i>>
           ELSE /\ hashes' = step.hashes
                /\ test_results' = step.results
                /\ i' = (IF step.hashes = hashes THEN AfterFailure(i) ELSE i + 1)
                /\ UNCHANGED <<pc, fault, exitCode>>
    /\ UNCHANGED <<present, executable, wrappers, j, ciphertext, signature,
                   public_key, results_file, execVars, adapterVars>>

\* test_sm3_hash, the consistency check after the loop.
sm3_hash_check ==
    /\ pc = "sm3_hash"
    /\ i > Len(wrappers)
    /\ LET check == HashCheck(hashes, test_results) IN
       IF check.fault # "none"
       THEN Crash(check.fault) /\ UNCHANGED <<test_results, i>>
       ELSE /\ test_results' = check.results
            /\ pc' = "sm4_encrypt"
            /\ i' = 1
            /\ UNCHANGED <<fault, exitCode>>
    /\ UNCHANGED <<present, executable, wrappers, hashes, j, ciphertext,
                   signature, public_key, results_file, calls, faults, execVars, adapterVars>>

\* test_sm4_encrypt_decrypt, the encrypt call of one encryptor.
sm4_encrypt_call ==
    /\ pc = "sm4_encrypt"
    /\ \E c \in Invoke(wrappers[i], "encrypt") :
        LET step == EncryptStep(c.out) IN
        /\ faults' = faults + c.cost
        /\ calls' = Append(calls, Call("sm4_encrypt_decrypt", "encrypt", wrappers[i], "", c.out))
        /\ IF step.fault # "none"
           THEN Crash(step.fault) /\ UNCHANGED <<i, j, ciphertext>>
           ELSE IF step.skip
           THEN /\ IF i < Len(wrappers)
                   THEN pc' = pc /\ i' = AfterFailure(i)
                   ELSE pc' = "sm2_sign" /\ i' = 1
                /\ UNCHANGED <<j, ciphertext, fault, exitCode>>
           ELSE /\ ciphertext' = step.ciphertext
                /\ pc' = "sm4_decrypt"
                /\ j' = 1
                /\ UNCHANGED <<i, fault, exitCode>>
    /\ UNCHANGED <<present, executable, wrappers, test_results, hashes,
                   signature, public_key, results_file, execVars, adapterVars>>

\* test_sm4_encrypt_decrypt, the decrypt call of one (encryptor, decryptor).
sm4_decrypt_call ==
    /\ pc = "sm4_decrypt"
    /\ \E c \in Invoke(wrappers[j], "decrypt") :
        LET step == DecryptStep(wrappers[i], wrappers[j], c.out, test_results) IN
        /\ faults' = faults + c.cost
        /\ calls' = Append(calls, Call("sm4_encrypt_decrypt", "decrypt", wrappers[j], wrappers[i], c.out))
        /\ IF step.fault # "none"
           THEN Crash(step.fault) /\ UNCHANGED <<test_results, i, j>>
           ELSE /\ test_results' = step.results
                /\ IF j < Len(wrappers)
                   THEN pc' = pc /\ i' = i /\ j' = j + 1
                   ELSE IF i < Len(wrappers)
                   THEN pc' = "sm4_encrypt" /\ i' = i + 1 /\ j' = 1
                   ELSE pc' = "sm2_sign" /\ i' = 1 /\ j' = 1
                /\ UNCHANGED <<fault, exitCode>>
    /\ UNCHANGED <<present, executable, wrappers, hashes, ciphertext,
                   signature, public_key, results_file, execVars, adapterVars>>

\* test_sm2_sign_verify, the sign call of one signer.
sm2_sign_call ==
    /\ pc = "sm2_sign"
    /\ \E c \in Invoke(wrappers[i], "sign") :
        LET step == SignStep(c.out) IN
        /\ faults' = faults + c.cost
        /\ calls' = Append(calls, Call("sm2_sign_verify", "sign", wrappers[i], "", c.out))
        /\ IF step.fault # "none"
           THEN Crash(step.fault) /\ UNCHANGED <<i, j, signature, public_key>>
           ELSE IF step.skip
           THEN /\ IF i < Len(wrappers)
                   THEN pc' = pc /\ i' = AfterFailure(i)
                   ELSE pc' = "print_summary" /\ i' = 1
                /\ UNCHANGED <<j, signature, public_key, fault, exitCode>>
           ELSE /\ signature' = step.signature
                /\ public_key' = step.public_key
                /\ pc' = "sm2_verify"
                /\ j' = 1
                /\ UNCHANGED <<i, fault, exitCode>>
    /\ UNCHANGED <<present, executable, wrappers, test_results, hashes,
                   ciphertext, results_file, execVars, adapterVars>>

\* test_sm2_sign_verify, the verify call of one (signer, verifier).
sm2_verify_call ==
    /\ pc = "sm2_verify"
    /\ \E c \in Invoke(wrappers[j], "verify") :
        LET step == VerifyStep(wrappers[i], wrappers[j], c.out, test_results) IN
        /\ faults' = faults + c.cost
        /\ calls' = Append(calls, Call("sm2_sign_verify", "verify", wrappers[j], wrappers[i], c.out))
        /\ IF step.fault # "none"
           THEN Crash(step.fault) /\ UNCHANGED <<test_results, i, j>>
           ELSE /\ test_results' = step.results
                /\ IF j < Len(wrappers)
                   THEN pc' = pc /\ i' = i /\ j' = j + 1
                   ELSE IF i < Len(wrappers)
                   THEN pc' = "sm2_sign" /\ i' = i + 1 /\ j' = 1
                   ELSE pc' = "print_summary" /\ i' = 1 /\ j' = 1
                /\ UNCHANGED <<fault, exitCode>>
    /\ UNCHANGED <<present, executable, wrappers, hashes, ciphertext,
                   signature, public_key, results_file, execVars, adapterVars>>

\* print_summary, its return to run_all_tests and main's sys.exit.
print_summary ==
    /\ pc = "print_summary"
    /\ results_file' = [written |-> TRUE, content |-> test_results]
    /\ exitCode' = ExitCodeOf(AllPassed(test_results))
    /\ pc' = "exited"
    /\ UNCHANGED <<present, executable, wrappers, test_results, hashes, i, j,
                   ciphertext, signature, public_key, fault, calls, faults,
                   execVars, adapterVars>>

\* Before main(): what is on disk under wrappers/.
Init ==
    /\ ExecIdle
    /\ AdapterIdle
    /\ present \in {s \in SUBSET KindSet : Cardinality(s) <= MaxProviders}
    /\ executable \in {e \in SUBSET present : Cardinality(present \ e) <= MaxFaults}
    /\ faults = Cardinality(present \ executable)
    /\ wrappers = <<>>
    /\ test_results = <<>>
    /\ hashes = <<>>
    /\ i = 1
    /\ j = 1
    /\ ciphertext = ""
    /\ signature = ""
    /\ public_key = ""
    /\ pc = "main"
    /\ fault = "none"
    /\ exitCode = -1
    /\ results_file = [written |-> FALSE, content |-> <<>>]
    /\ calls = <<>>

Next ==
    \/ detect_wrappers
    \/ sm3_hash_call
    \/ sm3_hash_check
    \/ sm4_encrypt_call
    \/ sm4_decrypt_call
    \/ sm2_sign_call
    \/ sm2_verify_call
    \/ print_summary

Spec == Init /\ [][Next]_vars


(*************************************************************************)
(* Properties of execute (SpecExec).                                     *)
(*************************************************************************)
IsError(v) == HasKey(v, "status") /\ v.items.status = "error"

WellFormed(v) == HasKey(v, "status") /\ v.items.status \in {"success", "error"}

\* subprocess.run did not hand back a CompletedProcess.
TransportFailure(proc) == proc.outcome \in LaunchFailures \cup {"TimeoutExpired", "UnicodeDecodeError"}

\* The child wrote nothing, or something that is not JSON.
UnparseableOutput(proc) == proc.outcome = "completed" /\ ~JsonLoads(proc.stdout).ok

NonZeroExit(proc) == proc.outcome = "completed" /\ proc.returncode # 0

\* C1 as stated: execute never raises, and for every failure mode (missing
\* executable, permission or launch failure, timeout, non-zero exit, empty
\* or non-JSON standard output) the result it returns has status error.
C1_EveryFailureModeIsError ==
    gpc = "returned" =>
        /\ ~gout.raised
        /\ (TransportFailure(gproc) \/ NonZeroExit(gproc) \/ UnparseableOutput(gproc))
                => IsError(gout.value)

\* C1 as amended: execute never raises, and for a missing executable, a
\* permission or launch failure, a timeout, and empty or non-JSON standard
\* output (so also a non-zero exit that wrote nothing) the result has
\* status error; a non-zero exit is not by itself such a mode.
C1_NeverRaises ==
    gpc = "returned" =>
        /\ ~gout.raised
        /\ (TransportFailure(gproc) \/ UnparseableOutput(gproc)) => IsError(gout.value)

\* A launch that failed with a permission error came back as an error result.
C1_Witness ==
    /\ gpc = "returned"
    /\ gproc.outcome = "PermissionError"
    /\ ~gout.raised
    /\ IsError(gout.value)

\* C2: every value execute returns is a mapping whose status is exactly
\* one of success or error, whatever the adapter wrote.
C2_ResultWellFormed ==
    gpc = "returned" => (~gout.raised /\ WellFormed(gout.value))

\* C9: an invocation whose child runs past EXECUTION_TIMEOUT returns the
\* error "Process timed out"; when execute returns the child is no longer
\* running, and no invocation is still waiting after the timeout.
C9_TimeoutKillsChild ==
    /\ clock <= EXECUTION_TIMEOUT
    /\ gpc = "returned" => child # "running"
    /\ (gpc = "returned" /\ gproc.outcome = "TimeoutExpired") =>
            /\ gout = Returned(ErrorResult("Process timed out"))
            /\ child = "killed"
            /\ clock = EXECUTION_TIMEOUT

\* The timeout expired and execute has returned.
C9_Witness ==
    /\ gpc = "returned"
    /\ gproc.outcome = "TimeoutExpired"
    /\ clock = EXECUTION_TIMEOUT
    /\ child = "killed"
    /\ IsError(gout.value)


(*************************************************************************)
(* Properties of a run (Spec).                                           *)
(*************************************************************************)
\* print_summary ran to its end.
RunCompleted == pc = "exited" /\ results_file.written

HashEnded ==
    pc \in {"sm4_encrypt", "sm4_decrypt", "sm2_sign", "sm2_verify", "print_summary"}
    \/ RunCompleted

Sm4Ended == pc \in {"sm2_sign", "sm2_verify", "print_summary"} \/ RunCompleted

Sm2Ended == pc = "print_summary" \/ RunCompleted

\* The providers an outcome names.
OutcomeProviders(r) ==
    {r[f] : f \in DOMAIN r \cap {"language", "encryptor", "decryptor", "signer", "verifier"}}
    \cup (IF "languages" \in DOMAIN r THEN Range(r.languages) ELSE {})
    \cup (IF "hashes" \in DOMAIN r THEN {r.hashes[k][1] : k \in 1..Len(r.hashes)} ELSE {})

FamilyRank(family) ==
    CASE family = "sm3_hash"            -> 1
      [] family = "sm4_encrypt_decrypt" -> 2
      [] family = "sm2_sign_verify"     -> 3

\* C3: whatever the providers return, a run with at least one provider goes
\* through the hash, SM4 and SM2 protocols in that order and reaches
\* print_summary; no exception escapes the matrix driver.
C3_NoFailureAbortsRun ==
    /\ fault = "none"
    /\ \A a, b \in 1..Len(calls) :
            a < b => FamilyRank(calls[a].family) <= FamilyRank(calls[b].family)
    /\ (pc = "exited" /\ Len(wrappers) > 0) => results_file.written

\* C4: at the end of a run, every hash, SM4 encrypt, SM4 decrypt, SM2 sign
\* or SM2 verify call for which execute returned an error result has a
\* failed outcome of its test family that names the provider called.
C4_EveryFailedCallRecorded ==
    RunCompleted =>
        \A k \in 1..Len(calls) :
            calls[k].status = "error" =>
                \E n \in 1..Len(test_results) :
                    /\ test_results[n].test = calls[k].family
                    /\ test_results[n].status = "failed"
                    /\ calls[k].by \in OutcomeProviders(test_results[n])

\* D's decryption of E's ciphertext gave back the plaintext.
Recovered(E, D) ==
    \E k \in 1..Len(calls) :
        /\ calls[k].op = "decrypt"
        /\ calls[k].peer = E
        /\ calls[k].by = D
        /\ calls[k].status = "success"
        /\ calls[k].output = plaintext

\* C5: when test_sm4_encrypt_decrypt ends, every ordered pair (E, D) of
\* discovered providers has an outcome, passed when D recovered the
\* plaintext from E's ciphertext and failed otherwise.
C5_Sm4EveryPairRecorded ==
    Sm4Ended =>
        \A E \in Range(wrappers), D \in Range(wrappers) :
            \E n \in 1..Len(test_results) :
                /\ test_results[n].test = "sm4_encrypt_decrypt"
                /\ test_results[n].encryptor = E
                /\ test_results[n].decryptor = D
                /\ test_results[n].status = (IF Recovered(E, D) THEN "passed" ELSE "failed")

\* V's verify of S's signature returned success with valid true.
Verified(S, V) ==
    \E k \in 1..Len(calls) :
        /\ calls[k].op = "verify"
        /\ calls[k].peer = S
        /\ calls[k].by = V
        /\ calls[k].status = "success"
        /\ calls[k].valid

\* C6: when test_sm2_sign_verify ends, every ordered pair (S, V) of
\* discovered providers has an outcome, passed when V's verify returned
\* success with valid true, and failed when verify returned an error,
\* reported the signature invalid, or S's sign result had no public key.
C6_Sm2EveryPairRecorded ==
    Sm2Ended =>
        \A S \in Range(wrappers), V \in Range(wrappers) :
            \E n \in 1..Len(test_results) :
                /\ test_results[n].test = "sm2_sign_verify"
                /\ test_results[n].signer = S
                /\ test_results[n].verifier = V
                /\ test_results[n].status = (IF Verified(S, V) THEN "passed" ELSE "failed")

\* The hash calls that came back with status success, in call order.
HashSucceeded ==
    SelectSeq(calls, LAMBDA c : c.family = "sm3_hash" /\ c.status = "success")

HashErrored ==
    {calls[k].by : k \in {n \in 1..Len(calls) :
        calls[n].family = "sm3_hash" /\ calls[n].status # "success"}}

\* Positions of the aggregate sm3_hash outcome, and of a provider's own.
HashAggregates ==
    {n \in 1..Len(test_results) :
        test_results[n].test = "sm3_hash" /\ "language" \notin DOMAIN test_results[n]}

HashFailuresOf(name) ==
    {n \in 1..Len(test_results) :
        /\ test_results[n].test = "sm3_hash"
        /\ "language" \in DOMAIN test_results[n]
        /\ test_results[n].language = name}

\* C7: when test_sm3_hash ends, the list holds exactly one aggregate
\* sm3_hash outcome; it is passed iff the digests of the providers whose
\* hash call succeeded have exactly one distinct value; a passed aggregate
\* lists exactly the providers that succeeded; and exactly the providers
\* whose call did not succeed have an outcome of their own, a failed one.
C7_HashConsistency ==
    HashEnded =>
        LET succeeded == HashSucceeded
            errored == HashErrored
            aggregates == HashAggregates
        IN  /\ Cardinality(aggregates) = 1
            /\ \A n \in aggregates :
                /\ test_results[n].status \in {"passed", "failed"}
                /\ test_results[n].status = "passed"
                     <=> Cardinality({succeeded[k].output : k \in 1..Len(succeeded)}) = 1
                /\ test_results[n].status = "passed"
                     => test_results[n].languages
                          = [k \in 1..Len(succeeded) |-> succeeded[k].by]
            /\ \A name \in Range(wrappers) :
                IF name \in errored
                THEN /\ Cardinality(HashFailuresOf(name)) = 1
                     /\ \A n \in HashFailuresOf(name) : test_results[n].status = "failed"
                     /\ \A k \in 1..Len(succeeded) : succeeded[k].by # name
                ELSE HashFailuresOf(name) = {}

\* Two providers, one whose hash call errored: the aggregate passed on the
\* other's digest alone and the failure has its own outcome.
C7_Witness ==
    /\ HashEnded
    /\ Len(wrappers) = 2
    /\ Len(HashSucceeded) = 1
    /\ \E n \in HashAggregates : test_results[n].status = "passed"
    /\ \E name \in HashErrored : HashFailuresOf(name) # {}

\* C8: the process exits with code 0 iff at least one provider was
\* discovered and every recorded outcome is passed, and with code 1
\* otherwise.
C8_ExitCode ==
    pc = "exited" =>
        /\ exitCode \in {0, 1}
        /\ exitCode = 0 <=>
              /\ Len(wrappers) > 0
              /\ \A n \in 1..Len(test_results) : test_results[n].status = "passed"

\* The providers that took part in the run so far.
Participants ==
    {calls[k].by : k \in 1..Len(calls)}
    \cup {calls[k].peer : k \in {n \in 1..Len(calls) : calls[n].peer # ""}}
    \cup UNION {OutcomeProviders(test_results[n]) : n \in 1..Len(test_results)}

\* C10 as stated: after detect_wrappers the registry holds exactly the
\* kinds whose artifact is present and executable.
C10_PresentAndExecutable ==
    pc # "main" => Range(wrappers) = present \cap executable

\* C10 as amended: after detect_wrappers the registry holds exactly one
\* entry for each kind whose artifact exists, executable or not, and none
\* for any other kind; when nothing exists the run ends with the failure
\* exit code, no exception and no invocation; a kind whose artifact is
\* absent takes part in no call and no outcome.
C10_RegistryIsPresentKinds ==
    pc # "main" =>
        /\ Range(wrappers) = present
        /\ Len(wrappers) = Cardinality(present)
        /\ present = {} => (pc = "exited" /\ exitCode = 1 /\ fault = "none" /\ calls = <<>>)
        /\ Participants \subseteq present

\* A run over a registry that holds a non-executable artifact and lacks
\* the absent kinds has reached the SM4 protocol.
C10_Witness ==
    /\ pc = "sm4_decrypt"
    /\ present # executable
    /\ Range(wrappers) = present
    /\ Participants = present


\* C11: at the end of every run, also one in which no provider is
\* discovered, test_results.json has been written and holds the outcome
\* list, the same records in the same order.
C11_ArtifactWritten ==
    pc = "exited" => (results_file.written /\ results_file.content = test_results)

\* Positions in the history of the calls of one operation.
CallsOf(op) == {k \in 1..Len(calls) : calls[k].op = op}

\* C13: when test_sm4_encrypt_decrypt ends, encrypt was called exactly
\* once per discovered provider; at any time a decrypt call is made only on
\* the row of an encryptor whose encrypt call succeeded, and an encryptor
\* whose call failed has no outcome; the rows after a failed one are still
\* processed (every encryptor is reached).
C13_FailedEncryptSkipsRow ==
    LET encrypts == CallsOf("encrypt")
        failed == {calls[k].by : k \in {n \in encrypts : calls[n].status # "success"}}
    IN  /\ \A k \in CallsOf("decrypt") : calls[k].peer \notin failed
        /\ \A n \in 1..Len(test_results) :
              test_results[n].test = "sm4_encrypt_decrypt"
                  => test_results[n].encryptor \notin failed
        /\ Sm4Ended =>
              \A name \in Range(wrappers) :
                  Cardinality({k \in encrypts : calls[k].by = name}) = 1

\* Two providers: the first one's encrypt failed, its row is empty, and the
\* second one's row was decrypted by both.
C13_Witness ==
    /\ Sm4Ended
    /\ Len(wrappers) = 2
    /\ \E k \in CallsOf("encrypt") :
          calls[k].by = wrappers[1] /\ calls[k].status = "error"
    /\ \A k \in CallsOf("decrypt") : calls[k].peer = wrappers[2]
    /\ Cardinality(CallsOf("decrypt")) = 2


\* C15: no invocation is made twice: in one run each provider is called at
\* most once for hash, for SM4 encrypt and for SM2 sign, and each ordered
\* pair gets at most one SM4 decrypt and one SM2 verify call, whatever the
\* results.
C15_NoRetry ==
    Cardinality({<<calls[k].op, calls[k].by, calls[k].peer>> : k \in 1..Len(calls)})
        = Len(calls)

\* A completed run over two providers in which a call failed.
C15_Witness ==
    /\ RunCompleted
    /\ Len(wrappers) = 2
    /\ \E k \in CallsOf("decrypt") : calls[k].status = "error"
    /\ \E k \in CallsOf("hash") : calls[k].status = "error"

\* The matrix cell an outcome belongs to.
CellOf(r) ==
    CASE r.test = "sm4_encrypt_decrypt" -> <<r.test, r.encryptor, r.decryptor>>
      [] r.test = "sm2_sign_verify"     -> <<r.test, r.signer, r.verifier>>
      [] r.test = "sm3_hash" -> IF "language" \in DOMAIN r
                                THEN <<r.test, r.language, "">>
                                ELSE <<r.test, "", "">>

\* C16: in every state the outcome list holds at most one outcome per
\* ordered SM4 pair, per ordered SM2 pair, per provider's own sm3_hash
\* failure, and at most one aggregate sm3_hash outcome.
C16_EachCellOnce ==
    Cardinality({CellOf(test_results[n]) : n \in 1..Len(test_results)})
        = Len(test_results)

\* Two providers, one hash failure and both matrices full: ten outcomes.
C16_Witness ==
    /\ RunCompleted
    /\ Len(wrappers) = 2
    /\ Len(test_results) = 10
    /\ \E n \in 1..Len(test_results) :
          test_results[n].test = "sm2_sign_verify" /\ test_results[n].status = "failed"

\* C17: every step leaves the outcome list unchanged or appends one record
\* to it; nothing recorded is changed or removed.
C17_AppendOnly ==
    [][ \/ test_results' = test_results
        \/ /\ Len(test_results') = Len(test_results) + 1
           /\ SubSeq(test_results', 1, Len(test_results)) = test_results ]_vars

\* Both hash calls of a two-provider run failed and the run went on.
C17_Witness ==
    /\ RunCompleted
    /\ Len(test_results) >= 3
    /\ Cardinality({k \in CallsOf("hash") : calls[k].status = "error"}) = 2

\* C19: whenever the process exits with code 0 over N discovered providers,
\* the list holds a passed sm4_encrypt_decrypt outcome and a passed
\* sm2_sign_verify outcome for each of the N*N ordered pairs, and a passed
\* sm3_hash outcome that lists all N providers.
C19_GreenRunIsComplete ==
    (pc = "exited" /\ exitCode = 0) =>
        /\ \A A \in Range(wrappers), B \in Range(wrappers) :
              /\ \E n \in 1..Len(test_results) :
                    /\ test_results[n].test = "sm4_encrypt_decrypt"
                    /\ test_results[n].status = "passed"
                    /\ test_results[n].encryptor = A
                    /\ test_results[n].decryptor = B
              /\ \E n \in 1..Len(test_results) :
                    /\ test_results[n].test = "sm2_sign_verify"
                    /\ test_results[n].status = "passed"
                    /\ test_results[n].signer = A
                    /\ test_results[n].verifier = B
        /\ \E n \in HashAggregates :
              /\ test_results[n].status = "passed"
              /\ test_results[n].languages = wrappers

\* C20: every recorded outcome is passed or failed, so in print_summary
\* passed + failed is the length of the list, and the flag it returns (the
\* exit code is 0) is true exactly when the failed count is 0, that is when
\* every outcome is passed.
C20_SummaryCounts ==
    /\ \A n \in 1..Len(test_results) : test_results[n].status \in {"passed", "failed"}
    /\ RunCompleted =>
          /\ Total(test_results) = Len(test_results)
          /\ exitCode = 0 <=> CountStatus(test_results, "failed") = 0
          /\ exitCode = 0 <=> CountStatus(test_results, "passed") = Len(test_results)

\* A summary over a list that holds both passed and failed outcomes.
C20_Witness ==
    /\ RunCompleted
    /\ CountStatus(test_results, "failed") > 0
    /\ CountStatus(test_results, "passed") > 0
    /\ exitCode = 1

\* Of the messages execute builds, the one that names the exit code and
\* the captured standard error.
ReferencesExit(v, rc, err) == IsError(v) /\ Get(v, "message") = ExitMessage(rc, err)

\* C14: when the child exits non-zero and its standard output parses as
\* JSON, execute returns the parsed value unchanged; in every other
\* non-zero-exit case it returns an error that references the exit code and
\* the captured standard error.
C14_ExitCodePolicy ==
    (gpc = "returned" /\ NonZeroExit(gproc)) =>
        /\ ~gout.raised
        /\ IF JsonLoads(gproc.stdout).ok
           THEN gout.value = JsonLoads(gproc.stdout).value
           ELSE ReferencesExit(gout.value, gproc.returncode, gproc.stderr)

\* The text is the JSON encoding of an object.
IsJsonObject(text) == JsonLoads(text).ok /\ IsDict(JsonLoads(text).value)

\* C12: on every path the Python adapter has written exactly one JSON
\* object to standard output when it exits: a successful handler, a handler
\* error, an unsupported operation, invalid JSON input, a rejected
\* command-line argument and a failed import of the crypto library.
C12_OneJsonObjectOnStdout ==
    apc = "exited" =>
        /\ Len(out_stream) = 1
        /\ IsJsonObject(out_stream[1])

\* The responses the adapter printed, on either stream.
Responses ==
    {JsonLoads(text).value : text \in {t \in Range(out_stream) \cup Range(err_stream) : IsJsonObject(t)}}

\* C18: every response the Python adapter prints carries status success or
\* error, an error response carries a message, and the exit code is 0
\* exactly when the printed status is success.
C18_StatusAndExitCode ==
    \A r \in Responses :
        /\ HasKey(r, "status")
        /\ r.items.status \in {"success", "error"}
        /\ r.items.status = "error" => HasKey(r, "message")
        /\ apc = "exited"
        /\ exit_status = 0 <=> r.items.status = "success"

\* The sign handler reported the library's error and the process exited 1.
C18_Witness ==
    /\ apc = "exited"
    /\ handler = <<"sm2", "sign">>
    /\ out_stream = <<OutBusinessError>>
    /\ exit_status = 1

=============================================================================
